---- MODULE Spec2Model ----
(***************************************************************************)
(* Model of backend/app/api/routes/audio.py: the three request handlers    *)
(* analyze_audio, change_bpm and pitch_shift with their temporary files,   *)
(* and the pure helpers detect_key and process_audio_stereo.               *)
(*                                                                         *)
(* Spec       one request, with every kind of upload and parameter         *)
(* SpecConc   NumReqs requests interleaved on one temporary directory      *)
(* SpecKey    detect_key's selection over 24 correlation values            *)
(* SpecStereo process_audio_stereo over small sample buffers               *)
(*                                                                         *)
(* The handlers record which library calls they make (engines) and what    *)
(* they answer; what librosa computes is not modelled.  detect_key and     *)
(* process_audio_stereo are pure and are modelled on their own inputs.     *)
(***************************************************************************)
EXTENDS Integers, Sequences, FiniteSets, TLC

(***************************************************************************)
(* Bounds of the model.                                                    *)
(***************************************************************************)
NumReqs == 2
MaxNames == 2

(***************************************************************************)
(* Configuration (audio.py:17-19).                                         *)
(***************************************************************************)
MAX_FILE_SIZE == 100 * 1024 * 1024
MAX_DURATION_SECONDS == 15 * 60
ALLOWED_EXTENSIONS == {".mp3", ".wav", ".flac"}

\* tmp_path: Path | None = None
None == 0

Reqs == 1 .. NumReqs
SeqReqs == {1}
Names == 1 .. MaxNames

\* bpm_factor is a float in [0.5, 1.5]; the model keeps it as an exact
\* fraction k / RateDen.
RateDen == 1000
MinRate == (RateDen + 1) \div 2
MaxRate == (3 * RateDen) \div 2
\* semitones: int = Form(..., ge=-12, le=12)
MinSemitones == -12
MaxSemitones == 12

\* the handlers
VARIABLES pc, req, tmp_path, fs, duration, decoded, read_data, engines, outcome
\* detect_key
VARIABLES major_correlations, minor_correlations, key
\* process_audio_stereo
VARIABLES y, process_fn, kwargs, y_out

hvars == <<pc, req, tmp_path, fs, duration, decoded, read_data, engines, outcome>>
kvars == <<major_correlations, minor_correlations, key>>
svars == <<y, process_fn, kwargs, y_out>>
vars == <<hvars, kvars, svars>>

(***************************************************************************)
(* Uploads.  A filename is kept as the two parts pathlib splits it into;   *)
(* an absent or empty filename has both parts empty.                       *)
(***************************************************************************)
NoFilename == [stem |-> "", suffix |-> ""]

Lower(s) ==
    CASE s = ".WAV" -> ".wav"
      [] s = ".MP3" -> ".mp3"
      [] s = ".FLAC" -> ".flac"
      [] OTHER -> s

SeqFilenames ==
    { NoFilename,
      [stem |-> "README", suffix |-> ""],
      [stem |-> "notes", suffix |-> ".txt"],
      [stem |-> "song", suffix |-> ".wav"],
      [stem |-> "Mix", suffix |-> ".MP3"],
      [stem |-> "take", suffix |-> ".flac"] }

ConcFilenames == { [stem |-> "song", suffix |-> ".wav"] }

SeqSizes == {1, MAX_FILE_SIZE, MAX_FILE_SIZE + 1}
ConcSizes == {MAX_FILE_SIZE}

\* decoded durations in seconds, around the limit
SeqDurations == {0, 1, MAX_DURATION_SECONDS, MAX_DURATION_SECONDS + 1}
ConcDurations == {MAX_DURATION_SECONDS, MAX_DURATION_SECONDS + 1}

\* which call after the validations raises (0: none)
SeqFaults == {0, 1, 2, 3}
ConcFaults == {0, 1}

SeqRates == {MinRate, RateDen - 1, RateDen, RateDen + 5, MaxRate}
ConcRates == {RateDen - 1}
SeqSemitones == MinSemitones .. MaxSemitones
ConcSemitones == {2}

NoReq == [endpoint |-> "", filename |-> NoFilename, size |-> 0,
          semitones |-> 0, bpm_factor |-> RateDen]

Inputs(filenames, sizes, rates, semis) ==
    { [endpoint |-> "analyze_audio", filename |-> f, size |-> z,
       semitones |-> 0, bpm_factor |-> RateDen] : f \in filenames, z \in sizes }
    \cup
    UNION { { [endpoint |-> "change_bpm", filename |-> f, size |-> z,
               semitones |-> 0, bpm_factor |-> k] : f \in filenames, z \in sizes }
            : k \in rates }
    \cup
    UNION { { [endpoint |-> "pitch_shift", filename |-> f, size |-> z,
               semitones |-> s, bpm_factor |-> RateDen] : f \in filenames, z \in sizes }
            : s \in semis }

SeqInputs == Inputs(SeqFilenames, SeqSizes, SeqRates, SeqSemitones)
ConcInputs == Inputs(ConcFilenames, ConcSizes, ConcRates, ConcSemitones)

(***************************************************************************)
(* Responses and exceptions.                                               *)
(***************************************************************************)
NoFile == [stem |-> "", sign |-> "", n |-> 0, unit |-> "", ext |-> ""]
NoOutcome == [status |-> 0, detail |-> "", filename |-> NoFile]

HTTPException(status, detail) ==
    [kind |-> "HTTPException", status |-> status, detail |-> detail]

OtherException(what) ==
    [kind |-> "Exception", status |-> 0, detail |-> what]

NoError == [kind |-> "", status |-> 0, detail |-> ""]

Error(status, detail) == [status |-> status, detail |-> detail, filename |-> NoFile]

FilenameRequired == HTTPException(400, "Filename is required")
InvalidFileType == HTTPException(400, "Invalid file type")
FileTooLarge == HTTPException(413, "File too large")
AudioTooLong == HTTPException(400, "Audio too long")
NoPitchShift == HTTPException(400, "No pitch shift requested")

\* the detail prefix of the generic failure of each handler
FailedDetail(endpoint) ==
    IF endpoint = "analyze_audio" THEN "Failed to analyze audio"
    ELSE "Failed to process audio"

\* except HTTPException: raise / except Exception as e: raise HTTPException(500)
ExceptRewrapAll(endpoint, exc) == Error(500, FailedDetail(endpoint))

ExceptClause(endpoint, exc) ==
    IF exc.kind = "HTTPException" THEN Error(exc.status, exc.detail)
    ELSE Error(500, FailedDetail(endpoint))

(***************************************************************************)
(* Pre-decode validation.                                                  *)
(***************************************************************************)
FileExt(filename) == Lower(filename.suffix)

\* the extension test before the filename test
ValidateNameExtFirst(filename) ==
    IF FileExt(filename) \notin ALLOWED_EXTENSIONS THEN InvalidFileType
    ELSE IF filename = NoFilename THEN FilenameRequired
    ELSE NoError

ValidateName(filename) ==
    IF filename = NoFilename THEN FilenameRequired
    ELSE IF FileExt(filename) \notin ALLOWED_EXTENSIONS THEN InvalidFileType
    ELSE NoError

ValidateSize(size) ==
    IF size > MAX_FILE_SIZE THEN FileTooLarge ELSE NoError

(***************************************************************************)
(* The temporary directory: a set of files, each with its path, the        *)
(* request that created it and the upload it holds (0: nothing written).   *)
(***************************************************************************)
Exists(path) == \E f \in fs : f.path = path

FilesAt(path) == {f \in fs : f.path = path}

\* a name taken without the exclusive-create test
AnyNames == Names

\* tempfile.NamedTemporaryFile: mkstemp opens with O_CREAT | O_EXCL, so the
\* name it returns did not exist
FreshNames == {n \in Names : ~Exists(n)}

\* cleanup only after a successful response
FinallySuccessOnly(r) ==
    IF outcome[r].status = 200 /\ tmp_path[r] # None /\ Exists(tmp_path[r])
    THEN fs \ FilesAt(tmp_path[r])
    ELSE fs

\* finally: if tmp_path and tmp_path.exists(): tmp_path.unlink()
FinallyClause(r) ==
    IF tmp_path[r] # None /\ Exists(tmp_path[r])
    THEN fs \ FilesAt(tmp_path[r])
    ELSE fs

(***************************************************************************)
(* The work inside the try block after the decode.                         *)
(***************************************************************************)
DurationExceeded(d) == d > MAX_DURATION_SECONDS

\* the zero test left out
ZeroSemitonesNever(semitones) == FALSE

\* if semitones == 0: raise HTTPException(400, "No pitch shift requested...")
ZeroSemitones(semitones) == semitones = 0

\* the calls each handler makes after its validations, in order; the last
\* one of a transform is the encoder
Steps(q) ==
    CASE q.endpoint = "analyze_audio" ->
           << [fn |-> "beat_track", arg |-> 0],
              [fn |-> "chroma_cqt", arg |-> 0],
              [fn |-> "detect_key", arg |-> 0] >>
      [] q.endpoint = "change_bpm" ->
           << [fn |-> "time_stretch", arg |-> q.bpm_factor],
              [fn |-> "sf.write", arg |-> 0] >>
      [] OTHER ->
           << [fn |-> "pitch_shift", arg |-> q.semitones],
              [fn |-> "sf.write", arg |-> 0] >>

\* int(bpm_factor * 100): truncation toward zero of the product
Pct(bpm_factor) == (bpm_factor * 100) \div RateDen

\* f"{stem}_{int(bpm_factor * 100)}pct{file_ext}"
ChangeBpmFilename(filename, bpm_factor) ==
    [stem |-> filename.stem, sign |-> "", n |-> Pct(bpm_factor),
     unit |-> "pct", ext |-> FileExt(filename)]

\* sign = "+" if semitones >= 0 else ""; f"{stem}_{sign}{semitones}st{file_ext}"
PitchShiftFilename(filename, semitones) ==
    [stem |-> filename.stem, sign |-> IF semitones >= 0 THEN "+" ELSE "",
     n |-> semitones, unit |-> "st", ext |-> FileExt(filename)]

Response(q) ==
    CASE q.endpoint = "analyze_audio" ->
           [status |-> 200, detail |-> "AudioAnalysisResult", filename |-> NoFile]
      [] q.endpoint = "change_bpm" ->
           [status |-> 200, detail |-> "StreamingResponse",
            filename |-> ChangeBpmFilename(q.filename, q.bpm_factor)]
      [] OTHER ->
           [status |-> 200, detail |-> "StreamingResponse",
            filename |-> PitchShiftFilename(q.filename, q.semitones)]

\* the zero test before the duration test
PostDecodeCheckZeroFirst(q, d) ==
    IF q.endpoint = "pitch_shift" /\ ZeroSemitones(q.semitones) THEN NoPitchShift
    ELSE IF DurationExceeded(d) THEN AudioTooLong
    ELSE NoError

\* The validations after the decode, in the order of the code: the duration
\* first, then (pitch_shift only) the zero test.
PostDecodeCheck(q, d) ==
    IF DurationExceeded(d) THEN AudioTooLong
    ELSE IF q.endpoint = "pitch_shift" /\ ZeroSemitones(q.semitones) THEN NoPitchShift
    ELSE NoError

\* the calls made when call number fault raises (0: none raises)
CallsMade(q, fault) ==
    LET steps == Steps(q)
        last == IF fault = 0 THEN Len(steps) ELSE fault
    IN  {steps[i] : i \in 1 .. last}

(***************************************************************************)
(* detect_key, from the correlations on (audio.py:52-59).  The 24          *)
(* correlations np.corrcoef returns are inputs: ordered values 0..MaxCorr, *)
(* or NaN for all 24 when the averaged chroma is constant (silence).       *)
(***************************************************************************)
MaxCorr == 2
MaxOdd == 2
NaN == -1
NumKeys == 12

KEY_NAMES == <<"C", "C#", "D", "D#", "E", "F", "F#", "G", "G#", "A", "A#", "B">>

NoKey == [name |-> "", mode |-> ""]

\* a > b on floats: false when either side is NaN
Gt(a, b) == a # NaN /\ b # NaN /\ a > b

\* np.argmin in place of np.argmax
ArgMin(c) ==
    IF \E i \in DOMAIN c : c[i] = NaN
    THEN (CHOOSE i \in DOMAIN c : c[i] = NaN /\ \A j \in DOMAIN c : c[j] = NaN => j >= i) - 1
    ELSE (CHOOSE i \in DOMAIN c :
             /\ \A j \in DOMAIN c : c[j] >= c[i]
             /\ \A j \in DOMAIN c : c[j] = c[i] => j >= i) - 1

\* int(np.argmax(c)): the first index of the maximum, counted from 0; the
\* first NaN when there is one
ArgMax(c) ==
    IF \E i \in DOMAIN c : c[i] = NaN
    THEN (CHOOSE i \in DOMAIN c : c[i] = NaN /\ \A j \in DOMAIN c : c[j] = NaN => j >= i) - 1
    ELSE (CHOOSE i \in DOMAIN c :
             /\ \A j \in DOMAIN c : c[j] <= c[i]
             /\ \A j \in DOMAIN c : c[j] = c[i] => j >= i) - 1

\* the comparison with >= in place of >
detect_key_ge(major, minor) ==
    LET max_major_idx == ArgMax(major)
        max_minor_idx == ArgMax(minor)
    IN  IF ~Gt(minor[max_minor_idx + 1], major[max_major_idx + 1])
        THEN [name |-> KEY_NAMES[max_major_idx + 1], mode |-> "major"]
        ELSE [name |-> KEY_NAMES[max_minor_idx + 1], mode |-> "minor"]

detect_key(major, minor) ==
    LET max_major_idx == ArgMax(major)
        max_minor_idx == ArgMax(minor)
    IN  IF Gt(major[max_major_idx + 1], minor[max_minor_idx + 1])
        THEN [name |-> KEY_NAMES[max_major_idx + 1], mode |-> "major"]
        ELSE [name |-> KEY_NAMES[max_minor_idx + 1], mode |-> "minor"]

\* sets of at most k positions among the 24 candidates
RECURSIVE OddSets(_)
OddSets(k) ==
    IF k = 0 THEN {{}}
    ELSE LET P == OddSets(k - 1)
         IN  P \cup {S \cup {i} : S \in P, i \in 1 .. 2 * NumKeys}

\* the 24 correlations: a common value but for at most MaxOdd candidates
KInit ==
    /\ key = NoKey
    /\ \/ /\ major_correlations = [i \in 1 .. NumKeys |-> NaN]
          /\ minor_correlations = [i \in 1 .. NumKeys |-> NaN]
       \/ \E b \in 0 .. MaxCorr : \E D \in OddSets(MaxOdd) :
            \E f \in [D -> (0 .. MaxCorr) \ {b}] :
               LET c == [i \in 1 .. 2 * NumKeys |-> IF i \in D THEN f[i] ELSE b]
               IN  /\ major_correlations = [i \in 1 .. NumKeys |-> c[i]]
                   /\ minor_correlations = [i \in 1 .. NumKeys |-> c[NumKeys + i]]

KIdle ==
    /\ major_correlations = <<>>
    /\ minor_correlations = <<>>
    /\ key = NoKey

DetectKey ==
    /\ key = NoKey
    /\ major_correlations # <<>>
    /\ key' = detect_key(major_correlations, minor_correlations)
    /\ UNCHANGED <<major_correlations, minor_correlations, hvars, svars>>

(***************************************************************************)
(* process_audio_stereo (audio.py:145-159).  A buffer is 1-D (ndim 1, data *)
(* holds the one row of samples) or 2-D (ndim 2, data holds the channels,  *)
(* all of one length, shape[0] of them).  process_fn is                    *)
(* an input: one of three per-channel functions, of which "gain" keeps the *)
(* length, "repeat" changes it by its parameter alone and "trim" changes   *)
(* it by the content.                                                      *)
(***************************************************************************)
MaxSamples == 2
MaxChannels == 2
MaxArg == 2
Samples == {0, 1}
ProcessFns == {"gain", "repeat", "trim"}

RECURSIVE Repeat(_, _)
Repeat(ch, k) ==
    IF ch = <<>> THEN <<>>
    ELSE [i \in 1 .. k |-> Head(ch)] \o Repeat(Tail(ch), k)

RECURSIVE Trim(_)
Trim(ch) ==
    IF ch = <<>> THEN <<>>
    ELSE IF Head(ch) = 0 THEN Trim(Tail(ch))
    ELSE ch

\* process_fn(channel, **kwargs)
Apply(fn, ch, k) ==
    CASE fn = "gain" -> [i \in 1 .. Len(ch) |-> (ch[i] + k) % 2]
      [] fn = "repeat" -> Repeat(ch, k)
      [] OTHER -> Trim(ch)

\* every channel computed from channel 0
ChannelsFromFirst(buf, fn, k) ==
    [ch \in 1 .. Len(buf.data) |-> Apply(fn, buf.data[1], k)]

\* [process_fn(y[ch], **kwargs) for ch in range(y.shape[0])]
Channels(buf, fn, k) ==
    [ch \in 1 .. Len(buf.data) |-> Apply(fn, buf.data[ch], k)]

\* np.array(channels): a 2-D array when the rows have one length; with rows
\* of different lengths NumPy raises ValueError (1.24 and later) or builds a
\* 1-D array of objects (before), and the source pins no version
NpArray(channels) ==
    IF \A i, j \in DOMAIN channels : Len(channels[i]) = Len(channels[j])
    THEN { [kind |-> "array", ndim |-> 2, data |-> channels] }
    ELSE { [kind |-> "ValueError", ndim |-> 0, data |-> <<>>],
           [kind |-> "object array", ndim |-> 1, data |-> channels] }

\* the results process_audio_stereo can give
process_audio_stereo(buf, fn, k) ==
    IF buf.ndim = 1
    THEN { [kind |-> "array", ndim |-> 1, data |-> <<Apply(fn, buf.data[1], k)>>] }
    ELSE NpArray(Channels(buf, fn, k))

RECURSIVE Seqs(_)
Seqs(n) ==
    IF n = 0 THEN {<<>>}
    ELSE {Append(q, v) : q \in Seqs(n - 1), v \in Samples}

Buffers ==
    UNION { { [ndim |-> 1, data |-> <<d>>] : d \in Seqs(n) } : n \in 0 .. MaxSamples }
    \cup
    UNION { UNION { { [ndim |-> 2, data |-> d] : d \in [1 .. c -> Seqs(n)] }
                    : n \in 0 .. MaxSamples }
            : c \in 1 .. MaxChannels }

NotCalled == [kind |-> "", ndim |-> 0, data |-> <<>>]

SInit ==
    /\ y \in Buffers
    /\ process_fn \in ProcessFns
    /\ kwargs \in 1 .. MaxArg
    /\ y_out = NotCalled

SIdle ==
    /\ y = [ndim |-> 1, data |-> << <<>> >>]
    /\ process_fn = ""
    /\ kwargs = 0
    /\ y_out = NotCalled

ProcessAudioStereo ==
    /\ y_out = NotCalled
    /\ process_fn # ""
    /\ y_out' \in process_audio_stereo(y, process_fn, kwargs)
    /\ UNCHANGED <<y, process_fn, kwargs, hvars, kvars>>

(***************************************************************************)
(* The handlers, one action per segment between two points where another   *)
(* request can touch the temporary directory: up to the await, the size    *)
(* test, the create, the write, the decode, the request's own computation, *)
(* the cleanup.  The three handlers share their code shape; the endpoint   *)
(* of the request selects the differences.                                 *)
(***************************************************************************)
Finish(r, out) ==
    /\ pc' = [pc EXCEPT ![r] = "done"]
    /\ outcome' = [outcome EXCEPT ![r] = out]

Raise(r, exc) ==
    /\ pc' = [pc EXCEPT ![r] = "finally"]
    /\ outcome' = [outcome EXCEPT ![r] = ExceptClause(req[r].endpoint, exc)]

\* the request arrives; filename and extension are tested up to the await
Start(r, inputs) ==
    /\ pc[r] = "idle"
    /\ \E q \in inputs :
         /\ req' = [req EXCEPT ![r] = q]
         /\ LET e == ValidateName(q.filename)
            IN  IF e # NoError
                THEN Finish(r, Error(e.status, e.detail))
                ELSE /\ pc' = [pc EXCEPT ![r] = "read"]
                     /\ UNCHANGED outcome
    /\ UNCHANGED <<tmp_path, fs, duration, decoded, read_data, engines, kvars, svars>>

\* content = await file.read(); the size test
ReadBody(r) ==
    /\ pc[r] = "read"
    /\ LET e == ValidateSize(req[r].size)
       IN  IF e # NoError
           THEN Finish(r, Error(e.status, e.detail))
           ELSE /\ pc' = [pc EXCEPT ![r] = "try"]
                /\ UNCHANGED outcome
    /\ UNCHANGED <<req, tmp_path, fs, duration, decoded, read_data, engines, kvars, svars>>

\* with tempfile.NamedTemporaryFile(suffix=file_ext, delete=False) as tmp:
\*     tmp_path = Path(tmp.name)
CreateTemp(r) ==
    /\ pc[r] = "try"
    /\ \/ \E n \in FreshNames :
            /\ fs' = (fs \ FilesAt(n)) \cup {[path |-> n, owner |-> r, data |-> 0]}
            /\ tmp_path' = [tmp_path EXCEPT ![r] = n]
            /\ pc' = [pc EXCEPT ![r] = "write"]
            /\ UNCHANGED outcome
       \/ \* the file cannot be created: tmp_path stays None
          /\ Raise(r, OtherException("OSError"))
          /\ UNCHANGED <<fs, tmp_path>>
    /\ UNCHANGED <<req, duration, decoded, read_data, engines, kvars, svars>>

\*     tmp.write(content)
WriteTemp(r) ==
    /\ pc[r] = "write"
    /\ \/ /\ fs' = IF Exists(tmp_path[r])
                   THEN (fs \ FilesAt(tmp_path[r]))
                        \cup {[path |-> tmp_path[r], owner |-> r, data |-> r]}
                   ELSE fs
          /\ pc' = [pc EXCEPT ![r] = "load"]
          /\ UNCHANGED outcome
       \/ \* the write fails; the file stays
          /\ Raise(r, OtherException("OSError"))
          /\ UNCHANGED fs
    /\ UNCHANGED <<req, tmp_path, duration, decoded, read_data, engines, kvars, svars>>

\* y, sr = librosa.load(str(tmp_path), ...); duration = librosa.get_duration(...)
Load(r, durations) ==
    /\ pc[r] = "load"
    /\ decoded' = [decoded EXCEPT ![r] = TRUE]
    /\ IF ~Exists(tmp_path[r])
       THEN /\ Raise(r, OtherException("FileNotFoundError"))
            /\ UNCHANGED <<duration, read_data>>
       ELSE /\ read_data' = [read_data EXCEPT
                               ![r] = (CHOOSE f \in FilesAt(tmp_path[r]) : TRUE).data]
            /\ \/ \* the content does not decode
                  /\ Raise(r, OtherException("DecodeError"))
                  /\ UNCHANGED duration
               \/ \E d \in durations :
                    /\ duration' = [duration EXCEPT ![r] = d]
                    /\ pc' = [pc EXCEPT ![r] = "process"]
                    /\ UNCHANGED outcome
    /\ UNCHANGED <<req, tmp_path, fs, engines, kvars, svars>>

\* the validations after the decode, the engines, the encoder, the response
Process(r, faults) ==
    /\ pc[r] = "process"
    /\ LET q == req[r]
           e == PostDecodeCheck(q, duration[r])
       IN  IF e # NoError
           THEN /\ Raise(r, e)
                /\ UNCHANGED engines
           ELSE \E fault \in faults \cap (0 .. Len(Steps(q))) :
                  /\ engines' = [engines EXCEPT ![r] = CallsMade(q, fault)]
                  /\ pc' = [pc EXCEPT ![r] = "finally"]
                  /\ outcome' = [outcome EXCEPT ![r] =
                        IF fault = 0 THEN Response(q)
                        ELSE ExceptClause(q.endpoint, OtherException("ProcessingError"))]
    /\ UNCHANGED <<req, tmp_path, fs, duration, decoded, read_data, kvars, svars>>

\* finally: the temporary file is removed and the outcome leaves the handler
Finally(r) ==
    /\ pc[r] = "finally"
    /\ fs' = FinallyClause(r)
    /\ pc' = [pc EXCEPT ![r] = "done"]
    /\ UNCHANGED <<req, tmp_path, duration, decoded, read_data, engines, outcome, kvars, svars>>

HInit ==
    /\ pc = [r \in Reqs |-> "idle"]
    /\ req = [r \in Reqs |-> NoReq]
    /\ tmp_path = [r \in Reqs |-> None]
    /\ fs = {}
    /\ duration = [r \in Reqs |-> -1]
    /\ decoded = [r \in Reqs |-> FALSE]
    /\ read_data = [r \in Reqs |-> 0]
    /\ engines = [r \in Reqs |-> {}]
    /\ outcome = [r \in Reqs |-> NoOutcome]

Init == HInit /\ KIdle /\ SIdle

Next ==
    \E r \in SeqReqs :
       \/ Start(r, SeqInputs)
       \/ ReadBody(r)
       \/ CreateTemp(r)
       \/ WriteTemp(r)
       \/ Load(r, SeqDurations)
       \/ Process(r, SeqFaults)
       \/ Finally(r)

Spec == Init /\ [][Next]_vars

NextConc ==
    \E r \in Reqs :
       \/ Start(r, ConcInputs)
       \/ ReadBody(r)
       \/ CreateTemp(r)
       \/ WriteTemp(r)
       \/ Load(r, ConcDurations)
       \/ Process(r, ConcFaults)
       \/ Finally(r)

SpecConc == Init /\ [][NextConc]_vars

InitKey == HInit /\ KInit /\ SIdle

SpecKey == InitKey /\ [][DetectKey]_vars

InitStereo == HInit /\ KIdle /\ SInit

SpecStereo == InitStereo /\ [][ProcessAudioStereo]_vars

(***************************************************************************)
(* Properties of the handlers.                                             *)
(***************************************************************************)
Done(r) == pc[r] = "done"

\* the request passed the three checks made before the try block
PreChecksPass(q) ==
    /\ ValidateName(q.filename) = NoError
    /\ ValidateSize(q.size) = NoError

\* the source was decoded (duration is -1 until librosa.load has returned)
Loaded(r) == duration[r] >= 0

ZeroShift(r) == req[r].endpoint = "pitch_shift" /\ req[r].semitones = 0

\* C1: once a handler has returned or raised, on whichever path, no temporary
\* file created for that request exists any more.
C1_TempFileRemoved ==
    \A r \in Reqs :
       Done(r) => /\ ~\E f \in fs : f.owner = r
                  /\ tmp_path[r] # None => ~Exists(tmp_path[r])

\* a request that created its file and failed with the generic 500 has ended
C1_Witness ==
    \E r \in Reqs : Done(r) /\ tmp_path[r] # None /\ outcome[r].status = 500

\* C2: a pitch_shift request with semitones = 0 never reaches
\* librosa.effects.pitch_shift (no engine call with n_steps = 0 is ever made)
\* and ends in an error, never in an audio response.
C2_ZeroNeverShifted ==
    /\ \A r \in Reqs : \A c \in engines[r] : c.fn = "pitch_shift" => c.arg # 0
    /\ \A r \in Reqs :
          ZeroShift(r) => /\ engines[r] = {}
                          /\ pc[r] \in {"finally", "done"} => outcome[r].status >= 400

\* a zero-semitone request was stopped by the zero test
C2_Witness ==
    \E r \in Reqs :
       /\ Done(r) /\ ZeroShift(r)
       /\ outcome[r] = Error(400, "No pitch shift requested")

\* C3: an input that decodes to more than 900 s ends with the 400 'Audio too
\* long' error, unchanged by the except clauses, and no analysis or transform
\* call is made for it.
C3_TooLongRejected ==
    \A r \in Reqs :
       (pc[r] \in {"finally", "done"} /\ duration[r] > MAX_DURATION_SECONDS)
          => /\ outcome[r] = Error(400, "Audio too long")
             /\ engines[r] = {}

\* an over-long .wav upload of allowed size has been answered
C3_Witness ==
    \E r \in Reqs :
       /\ Done(r) /\ duration[r] > MAX_DURATION_SECONDS
       /\ FileExt(req[r].filename) = ".wav"
       /\ req[r].size <= MAX_FILE_SIZE

\* Python's round(): to the nearest integer, a half to the even one
RoundPct(bpm_factor) ==
    LET x == bpm_factor * 100
        q == x \div RateDen
        m == x % RateDen
    IN  IF 2 * m > RateDen \/ (2 * m = RateDen /\ q % 2 = 1) THEN q + 1 ELSE q

\* C6: the percentage in the change_bpm output filename is bpm_factor * 100
\* rounded to the nearest integer.
C6_RoundedPct ==
    \A r \in Reqs :
       (Done(r) /\ req[r].endpoint = "change_bpm" /\ outcome[r].status = 200)
          => outcome[r].filename =
                [stem |-> req[r].filename.stem, sign |-> "",
                 n |-> RoundPct(req[r].bpm_factor), unit |-> "pct",
                 ext |-> FileExt(req[r].filename)]

\* C8 as claimed: a valid zero-semitone request always ends with the
\* zero-semitone error, before the source is decoded.
C8_ZeroRejectedBeforeDecode ==
    \A r \in Reqs :
       (Done(r) /\ ZeroShift(r) /\ PreChecksPass(req[r]))
          => /\ outcome[r] = Error(400, "No pitch shift requested")
             /\ ~decoded[r]

\* C8 (amended): a valid zero-semitone request ends with the zero-semitone
\* error exactly when its source was stored and decoded and lasts at most
\* 900 s; the test runs after the decode and the duration test, so a source
\* that could not be stored or decoded ends with the generic 500 failure and
\* an over-long one with the duration error; no engine is called.
C8_ZeroRejectedAfterDecode ==
    \A r \in Reqs :
       (Done(r) /\ ZeroShift(r) /\ PreChecksPass(req[r]))
          => /\ engines[r] = {}
             /\ (Loaded(r) /\ duration[r] <= MAX_DURATION_SECONDS)
                   => (outcome[r] = Error(400, "No pitch shift requested") /\ decoded[r])
             /\ duration[r] > MAX_DURATION_SECONDS
                   => outcome[r] = Error(400, "Audio too long")
             /\ ~Loaded(r) => outcome[r] = Error(500, "Failed to process audio")

\* a valid zero-semitone request ended with the duration error
C8_Witness ==
    \E r \in Reqs :
       /\ Done(r) /\ ZeroShift(r) /\ PreChecksPass(req[r])
       /\ decoded[r]
       /\ outcome[r] = Error(400, "Audio too long")

\* the request holds a temporary file: created and not yet cleaned up
Holding(r) == pc[r] \in {"write", "load", "process", "finally"} /\ tmp_path[r] # None

\* C9: requests share no file: a request that holds a temporary file finds
\* it in place, its own and with nothing but its own upload in it; two
\* requests never hold the same path; what a request decodes is what it
\* wrote; every file belongs to a request still holding it; and once all
\* requests have ended the directory is empty.
C9_Isolation ==
    /\ \A r \in Reqs :
          Holding(r) => /\ Cardinality(FilesAt(tmp_path[r])) = 1
                        /\ \A f \in FilesAt(tmp_path[r]) :
                              f.owner = r /\ f.data \in {0, r}
    /\ \A r1, r2 \in Reqs :
          (r1 # r2 /\ Holding(r1) /\ Holding(r2)) => tmp_path[r1] # tmp_path[r2]
    /\ \A r \in Reqs : decoded[r] => read_data[r] = r
    /\ \A f \in fs : Holding(f.owner) /\ tmp_path[f.owner] = f.path
    /\ (\A r \in Reqs : Done(r)) => fs = {}

\* one request is cleaning up while another is about to decode its file
C9_Witness ==
    \E r1, r2 \in Reqs :
       /\ r1 # r2
       /\ Holding(r1) /\ pc[r1] = "finally"
       /\ Holding(r2) /\ pc[r2] = "load"
       /\ req[r1].endpoint # req[r2].endpoint

\* C10: the checks before the decode run in the order filename, extension,
\* size; the first one that fails gives the outcome; and a request that fails
\* one of them creates no temporary file, decodes nothing and calls no engine.
C10_PreDecodeOrder ==
    \A r \in Reqs :
       pc[r] # "idle" =>
          LET q == req[r]
              noName == q.filename = NoFilename
              badExt == ~noName /\ FileExt(q.filename) \notin ALLOWED_EXTENSIONS
              tooBig == ~noName /\ ~badExt /\ q.size > MAX_FILE_SIZE
          IN  /\ noName => (Done(r) /\ outcome[r] = Error(400, "Filename is required"))
              /\ badExt => (Done(r) /\ outcome[r] = Error(400, "Invalid file type"))
              /\ tooBig => /\ pc[r] \in {"read", "done"}
                           /\ Done(r) => outcome[r] = Error(413, "File too large")
              /\ (noName \/ badExt \/ tooBig)
                    => /\ tmp_path[r] = None
                       /\ ~decoded[r]
                       /\ engines[r] = {}
                       /\ ~\E f \in fs : f.owner = r

\* an oversized upload with a disallowed extension got the extension error
C10_Witness ==
    \E r \in Reqs :
       /\ Done(r)
       /\ req[r].filename.suffix = ".txt"
       /\ req[r].size > MAX_FILE_SIZE
       /\ outcome[r] = Error(400, "Invalid file type")

(***************************************************************************)
(* Properties of detect_key.                                               *)
(***************************************************************************)
KeyDetected == key # NoKey

NoNaNs ==
    /\ \A i \in DOMAIN major_correlations : major_correlations[i] # NaN
    /\ \A i \in DOMAIN minor_correlations : minor_correlations[i] # NaN

\* the largest value of a list
MaxOf(c) == CHOOSE v \in {c[i] : i \in DOMAIN c} : \A j \in DOMAIN c : c[j] <= v

\* the first place of the largest value, counted from 1
FirstBest(c) == CHOOSE i \in DOMAIN c : c[i] = MaxOf(c) /\ \A j \in 1 .. i - 1 : c[j] < c[i]

Tie == MaxOf(major_correlations) = MaxOf(minor_correlations)

\* C4 as claimed: at equal best correlations the major candidate is returned.
C4_TieReturnsMajor ==
    (KeyDetected /\ NoNaNs /\ Tie)
       => key = [name |-> KEY_NAMES[FirstBest(major_correlations)], mode |-> "major"]

\* C4 (amended): at equal best correlations the minor candidate is returned
\* (the major one wins only when strictly greater).
C4_TieReturnsMinor ==
    (KeyDetected /\ NoNaNs /\ Tie)
       => key = [name |-> KEY_NAMES[FirstBest(minor_correlations)], mode |-> "minor"]

\* a tie between a major and a minor candidate of different pitch classes,
\* both above the other 22 correlations
C4_Witness ==
    /\ KeyDetected /\ NoNaNs /\ Tie
    /\ FirstBest(major_correlations) # FirstBest(minor_correlations)
    /\ \E i \in DOMAIN major_correlations :
          major_correlations[i] < MaxOf(major_correlations)

\* C5: when one of the 24 correlations is strictly greater than the other
\* 23, detect_key returns the pitch class of its rotation index and the mode
\* of its family: the two-stage choice is the argmax over all 24.
C5_UniqueMaxWins ==
    (KeyDetected /\ NoNaNs) =>
       /\ \A i \in 1 .. NumKeys :
             ( /\ \A j \in 1 .. NumKeys :
                     j # i => major_correlations[j] < major_correlations[i]
               /\ \A j \in 1 .. NumKeys :
                     minor_correlations[j] < major_correlations[i] )
                => key = [name |-> KEY_NAMES[i], mode |-> "major"]
       /\ \A i \in 1 .. NumKeys :
             ( /\ \A j \in 1 .. NumKeys :
                     j # i => minor_correlations[j] < minor_correlations[i]
               /\ \A j \in 1 .. NumKeys :
                     major_correlations[j] < minor_correlations[i] )
                => key = [name |-> KEY_NAMES[i], mode |-> "minor"]

\* the unique maximum is a major candidate other than C, above a minor
\* candidate that is itself above the rest
C5_Witness ==
    /\ KeyDetected /\ NoNaNs
    /\ \E i \in 2 .. NumKeys :
          /\ \A j \in 1 .. NumKeys : j # i => major_correlations[j] < major_correlations[i]
          /\ \A j \in 1 .. NumKeys : minor_correlations[j] < major_correlations[i]
          /\ \E j \in 2 .. NumKeys : minor_correlations[j] > minor_correlations[1]
    /\ key.mode = "major"

(***************************************************************************)
(* Properties of process_audio_stereo.                                     *)
(***************************************************************************)
Called == y_out # NotCalled

\* what process_fn gives for each row of y
Outs == [ch \in 1 .. Len(y.data) |-> Apply(process_fn, y.data[ch], kwargs)]

EqualLengths == \A i, j \in DOMAIN Outs : Len(Outs[i]) = Len(Outs[j])

Shortest == CHOOSE n \in {Len(Outs[i]) : i \in DOMAIN Outs} : \A j \in DOMAIN Outs : n <= Len(Outs[j])

MonoResult == y_out = [kind |-> "array", ndim |-> 1, data |-> <<Outs[1]>>]

\* C7 as claimed: mono in, the function applied once; multi-channel in, as
\* many channels out, in order, each the function of its channel, all cut to
\* the shortest length when the lengths differ.
C7_ShortestLength ==
    Called =>
       IF y.ndim = 1 THEN MonoResult
       ELSE y_out = [kind |-> "array", ndim |-> 2,
                     data |-> [ch \in DOMAIN Outs |-> SubSeq(Outs[ch], 1, Shortest)]]

\* C7 (amended): mono in, the function applied once and no second channel;
\* multi-channel in with per-channel results of one length, as many channels
\* out, in order, each the function of its channel with the same parameters;
\* with per-channel results of different lengths nothing is padded or cut:
\* the call raises or returns the ragged rows as they are.
C7_ChannelGeometry ==
    Called =>
       IF y.ndim = 1 THEN MonoResult
       ELSE IF EqualLengths
            THEN y_out = [kind |-> "array", ndim |-> 2, data |-> Outs]
            ELSE \/ y_out = [kind |-> "ValueError", ndim |-> 0, data |-> <<>>]
                 \/ y_out = [kind |-> "object array", ndim |-> 1, data |-> Outs]

\* two different channels went in and a 2-D array of two different channels
\* came out
C7_Witness ==
    /\ Called
    /\ y.ndim = 2 /\ Len(y.data) >= 2
    /\ y.data[1] # y.data[2]
    /\ y_out.kind = "array" /\ y_out.ndim = 2
    /\ y_out.data[1] # y_out.data[2]

====
